---- MODULE Spec2Model ----
(***************************************************************************)
(* gaudi: renders an RGBA image as coloured half-block text.               *)
(*                                                                         *)
(* Pixels are tuples <<r, g, b, a>> of u8 channels.  An ansi_term::Colour  *)
(* is a tagged tuple: <<"Black">> .. <<"White">>, <<"Fixed", n>> or        *)
(* <<"RGB", r, g, b>>.  A colored::Color is <<"Black">> .. <<"BrightWhite">>*)
(* or <<"TrueColor", r, g, b>>.  A span (ANSIGenericString) is             *)
(* <<"Span", text, style>>, text a sequence of code points and style a     *)
(* record [foreground, background] of Colour or None.                      *)
(***************************************************************************)
EXTENDS Integers, Sequences, FiniteSets, TLC

VARIABLES
    pc,                \* position of the operation that is running
    panicked,          \* TRUE once a panic!/assert!/unwrap()/out-of-bounds read was hit
    color_mode,        \* ColorMode whose color_mapper is in use
    pixel,             \* color mapper: the argument
    colour,            \* color mapper: the returned Colour
    upper_pixel,       \* two_pixels_to_ascii_char: arguments
    lower_pixel,
    glyph,             \* two_pixels_to_ascii_char: the returned span
    image,             \* image_to_ascii: the image [width, height, px]
    vertical_gravity,  \* image_to_ascii: VerticalDirection
    row,               \* image_to_ascii: local `row`
    as_string,         \* image_to_ascii: local `as_string`
    row_reads,         \* image_to_ascii: per pushed row, the image rows read as <<upper, lower>>
    spans,             \* write_with_minimal_control_sequences: argument
    previous_style,    \* write_with_minimal_control_sequences: local
    next_span,         \* write_with_minimal_control_sequences: loop position (1-based)
    fmt,               \* write_with_minimal_control_sequences: text written to the formatter
    payload,           \* escape_for_string_content: argument
    next_char,         \* escape_for_string_content: loop position (1-based)
    out,               \* escape_for_string_content: local `out`
    color_mode_arg,    \* main: the --color-mode argument (clap default "auto")
    colorterm,         \* main: the COLORTERM environment variable [set, value]
    stdout,            \* main: text printed
    renders            \* main: the ColorMode of every image_to_ascii call made so far

vars == <<pc, panicked, color_mode, pixel, colour, upper_pixel, lower_pixel, glyph,
          image, vertical_gravity, row, as_string, row_reads,
          spans, previous_style, next_span, fmt, payload, next_char, out,
          color_mode_arg, colorterm, stdout, renders>>

mapperVars  == <<pixel, colour>>
glyphVars   == <<upper_pixel, lower_pixel, glyph>>
imageVars   == <<image, vertical_gravity, row, as_string, row_reads>>
emitVars    == <<spans, previous_style, next_span, fmt>>
escapeVars  == <<payload, next_char, out>>
mainVars    == <<color_mode_arg, colorterm, stdout, renders>>

----------------------------------------------------------------------------
(* Values shared by all operations *)

None == <<"None">>
Panic == <<"Panic">>

ColorModes == {"TrueColor", "ANSI", "M256Color"}

Max(a, b) == IF a >= b THEN a ELSE b
Min(a, b) == IF a <= b THEN a ELSE b

----------------------------------------------------------------------------
(* main.rs: the palette tables *)

\* ansi_colors[i] is Colour::Fixed(i - 1) (the table is 0-based in the source)
ansi_colors == [i \in 1..256 |-> <<"Fixed", i - 1>>]

ansi_color_to_truecolor == <<
    <<0, 0, 0>>, <<128, 0, 0>>, <<0, 128, 0>>, <<128, 128, 0>>,
    <<0, 0, 128>>, <<128, 0, 128>>, <<0, 128, 128>>, <<192, 192, 192>>,
    <<128, 128, 128>>, <<255, 0, 0>>, <<0, 255, 0>>, <<255, 255, 0>>,
    <<0, 0, 255>>, <<255, 0, 255>>, <<0, 255, 255>>, <<255, 255, 255>>,
    <<0, 0, 0>>, <<0, 0, 95>>, <<0, 0, 135>>, <<0, 0, 175>>,
    <<0, 0, 215>>, <<0, 0, 255>>, <<0, 95, 0>>, <<0, 95, 95>>,
    <<0, 95, 135>>, <<0, 95, 175>>, <<0, 95, 215>>, <<0, 95, 255>>,
    <<0, 135, 0>>, <<0, 135, 95>>, <<0, 135, 135>>, <<0, 135, 175>>,
    <<0, 135, 215>>, <<0, 135, 255>>, <<0, 175, 0>>, <<0, 175, 95>>,
    <<0, 175, 135>>, <<0, 175, 175>>, <<0, 175, 215>>, <<0, 175, 255>>,
    <<0, 215, 0>>, <<0, 215, 95>>, <<0, 215, 135>>, <<0, 215, 175>>,
    <<0, 215, 215>>, <<0, 215, 255>>, <<0, 255, 0>>, <<0, 255, 95>>,
    <<0, 255, 135>>, <<0, 255, 175>>, <<0, 255, 215>>, <<0, 255, 255>>,
    <<95, 0, 0>>, <<95, 0, 95>>, <<95, 0, 135>>, <<95, 0, 175>>,
    <<95, 0, 215>>, <<95, 0, 255>>, <<95, 95, 0>>, <<95, 95, 95>>,
    <<95, 95, 135>>, <<95, 95, 175>>, <<95, 95, 215>>, <<95, 95, 255>>,
    <<95, 135, 0>>, <<95, 135, 95>>, <<95, 135, 135>>, <<95, 135, 175>>,
    <<95, 135, 215>>, <<95, 135, 255>>, <<95, 175, 0>>, <<95, 175, 95>>,
    <<95, 175, 135>>, <<95, 175, 175>>, <<95, 175, 215>>, <<95, 175, 255>>,
    <<95, 215, 0>>, <<95, 215, 95>>, <<95, 215, 135>>, <<95, 215, 175>>,
    <<95, 215, 215>>, <<95, 215, 255>>, <<95, 255, 0>>, <<95, 255, 95>>,
    <<95, 255, 135>>, <<95, 255, 175>>, <<95, 255, 215>>, <<95, 255, 255>>,
    <<135, 0, 0>>, <<135, 0, 95>>, <<135, 0, 135>>, <<135, 0, 175>>,
    <<135, 0, 215>>, <<135, 0, 255>>, <<135, 95, 0>>, <<135, 95, 95>>,
    <<135, 95, 135>>, <<135, 95, 175>>, <<135, 95, 215>>, <<135, 95, 255>>,
    <<135, 135, 0>>, <<135, 135, 95>>, <<135, 135, 135>>, <<135, 135, 175>>,
    <<135, 135, 215>>, <<135, 135, 255>>, <<135, 175, 0>>, <<135, 175, 95>>,
    <<135, 175, 135>>, <<135, 175, 175>>, <<135, 175, 215>>, <<135, 175, 255>>,
    <<135, 215, 0>>, <<135, 215, 95>>, <<135, 215, 135>>, <<135, 215, 175>>,
    <<135, 215, 215>>, <<135, 215, 255>>, <<135, 255, 0>>, <<135, 255, 95>>,
    <<135, 255, 135>>, <<135, 255, 175>>, <<135, 255, 215>>, <<135, 255, 255>>,
    <<175, 0, 0>>, <<175, 0, 95>>, <<175, 0, 135>>, <<175, 0, 175>>,
    <<175, 0, 215>>, <<175, 0, 255>>, <<175, 95, 0>>, <<175, 95, 95>>,
    <<175, 95, 135>>, <<175, 95, 175>>, <<175, 95, 215>>, <<175, 95, 255>>,
    <<175, 135, 0>>, <<175, 135, 95>>, <<175, 135, 135>>, <<175, 135, 175>>,
    <<175, 135, 215>>, <<175, 135, 255>>, <<175, 175, 0>>, <<175, 175, 95>>,
    <<175, 175, 135>>, <<175, 175, 175>>, <<175, 175, 215>>, <<175, 175, 255>>,
    <<175, 215, 0>>, <<175, 215, 95>>, <<175, 215, 135>>, <<175, 215, 175>>,
    <<175, 215, 215>>, <<175, 215, 255>>, <<175, 255, 0>>, <<175, 255, 95>>,
    <<175, 255, 135>>, <<175, 255, 175>>, <<175, 255, 215>>, <<175, 255, 255>>,
    <<215, 0, 0>>, <<215, 0, 95>>, <<215, 0, 135>>, <<215, 0, 175>>,
    <<215, 0, 215>>, <<215, 0, 255>>, <<215, 95, 0>>, <<215, 95, 95>>,
    <<215, 95, 135>>, <<215, 95, 175>>, <<215, 95, 215>>, <<215, 95, 255>>,
    <<215, 135, 0>>, <<215, 135, 95>>, <<215, 135, 135>>, <<215, 135, 175>>,
    <<215, 135, 215>>, <<215, 135, 255>>, <<215, 175, 0>>, <<215, 175, 95>>,
    <<215, 175, 135>>, <<215, 175, 175>>, <<215, 175, 215>>, <<215, 175, 255>>,
    <<215, 215, 0>>, <<215, 215, 95>>, <<215, 215, 135>>, <<215, 215, 175>>,
    <<215, 215, 215>>, <<215, 215, 255>>, <<215, 255, 0>>, <<215, 255, 95>>,
    <<215, 255, 135>>, <<215, 255, 175>>, <<215, 255, 215>>, <<215, 255, 255>>,
    <<255, 0, 0>>, <<255, 0, 95>>, <<255, 0, 135>>, <<255, 0, 175>>,
    <<255, 0, 215>>, <<255, 0, 255>>, <<255, 95, 0>>, <<255, 95, 95>>,
    <<255, 95, 135>>, <<255, 95, 175>>, <<255, 95, 215>>, <<255, 95, 255>>,
    <<255, 135, 0>>, <<255, 135, 95>>, <<255, 135, 135>>, <<255, 135, 175>>,
    <<255, 135, 215>>, <<255, 135, 255>>, <<255, 175, 0>>, <<255, 175, 95>>,
    <<255, 175, 135>>, <<255, 175, 175>>, <<255, 175, 215>>, <<255, 175, 255>>,
    <<255, 215, 0>>, <<255, 215, 95>>, <<255, 215, 135>>, <<255, 215, 175>>,
    <<255, 215, 215>>, <<255, 215, 255>>, <<255, 255, 0>>, <<255, 255, 95>>,
    <<255, 255, 135>>, <<255, 255, 175>>, <<255, 255, 215>>, <<255, 255, 255>>,
    <<8, 8, 8>>, <<18, 18, 18>>, <<28, 28, 28>>, <<38, 38, 38>>,
    <<48, 48, 48>>, <<58, 58, 58>>, <<68, 68, 68>>, <<78, 78, 78>>,
    <<88, 88, 88>>, <<98, 98, 98>>, <<108, 108, 108>>, <<118, 118, 118>>,
    <<128, 128, 128>>, <<138, 138, 138>>, <<148, 148, 148>>, <<158, 158, 158>>,
    <<168, 168, 168>>, <<178, 178, 178>>, <<188, 188, 188>>, <<198, 198, 198>>,
    <<208, 208, 208>>, <<218, 218, 218>>, <<228, 228, 228>>, <<238, 238, 238>>
>>

\* the eight choices color_mapping_ansi passes to pick_closest_from, in order
basic_choices == <<<<"Black">>, <<"Red">>, <<"Green">>,
                   <<"Yellow">>, <<"Blue">>, <<"Magenta">>,
                   <<"Cyan">>, <<"White">>>>

into_truecolor(color) ==
    CASE color[1] = "Black" -> <<0, 0, 0>>
      [] color[1] = "Red" -> <<205, 0, 0>>
      [] color[1] = "Green" -> <<0, 205, 0>>
      [] color[1] = "Yellow" -> <<205, 205, 0>>
      [] color[1] = "Blue" -> <<0, 0, 238>>
      [] color[1] = "Magenta" -> <<205, 0, 205>>
      [] color[1] = "Cyan" -> <<0, 205, 205>>
      [] color[1] = "White" -> <<229, 229, 229>>
      [] color[1] = "BrightBlack" -> <<127, 127, 127>>
      [] color[1] = "BrightRed" -> <<255, 0, 0>>
      [] color[1] = "BrightGreen" -> <<0, 255, 0>>
      [] color[1] = "BrightYellow" -> <<255, 255, 0>>
      [] color[1] = "BrightBlue" -> <<92, 92, 255>>
      [] color[1] = "BrightMagenta" -> <<255, 0, 255>>
      [] color[1] = "BrightCyan" -> <<0, 255, 255>>
      [] color[1] = "BrightWhite" -> <<255, 255, 255>>
      [] color[1] = "TrueColor" -> <<color[2], color[3], color[4]>>

----------------------------------------------------------------------------
(* main.rs: nearest-colour search *)

\* u8 differences (max - min never underflows), widened to u32, squared and summed;
\* the sum is at most 3 * 255 * 255 = 195075, so the u32 arithmetic never wraps
euclidian_distance(ca, cb) ==
    LET rd == Max(ca[1], cb[1]) - Min(ca[1], cb[1])
        gd == Max(ca[2], cb[2]) - Min(ca[2], cb[2])
        bd == Max(ca[3], cb[3]) - Min(ca[3], cb[3])
    IN  (rd * rd) + (gd * gd) + (bd * bd)

\* mutant of min_by: the later of two equal keys wins
min_by_last_wins(l, r) == IF l[2] >= r[2] THEN r ELSE l

\* core::cmp::min_by as Iterator::min_by_key uses it to reduce <<index, key>> pairs:
\* the left (earlier) element is kept unless the right one's key is strictly smaller
min_by(l, r) == IF l[2] > r[2] THEN r ELSE l

\* Iterator::min_by_key over choices lo..hi, as the pair <<index, key>>.  The
\* iterator reduces left to right with min_by; min_by is associative (it selects
\* the leftmost least key), so the same reduction is evaluated here as a balanced
\* tree, which keeps the evaluation depth at log2 of the table size.
RECURSIVE min_by_key(_, _, _)
min_by_key(keys, lo, hi) ==
    IF lo = hi THEN <<lo, keys[lo]>>
    ELSE LET mid == (lo + hi) \div 2
             l == min_by_key(keys, lo, mid)
             r == min_by_key(keys, mid + 1, hi)
         IN  min_by(l, r)

\* returns None for no choices, else the chosen element of `choices`;
\* candidate_to_truecolor, a fn pointer in the source, is a function on the choices
pick_closest_from(color, choices, candidate_to_truecolor) ==
    LET input_as_truecolor == into_truecolor(color)
        keys == [i \in 1..Len(choices) |->
                    euclidian_distance(input_as_truecolor, candidate_to_truecolor[choices[i]])]
    IN  IF Len(choices) = 0 THEN None
        ELSE choices[min_by_key(keys, 1, Len(choices))[1]]

----------------------------------------------------------------------------
(* main.rs: the three color mappers; each returns a Colour, or Panic *)

color_mapping_truecolor(p) == <<"RGB", p[1], p[2], p[3]>>

\* the closure of color_mapping_256: table lookup for a Fixed colour, else panic
fixed_to_truecolor(c) ==
    IF c[1] = "Fixed" /\ c[2] + 1 \in DOMAIN ansi_color_to_truecolor
    THEN ansi_color_to_truecolor[c[2] + 1]
    ELSE Panic

\* Option::unwrap: panics on None
unwrap(option) == IF option = None THEN Panic ELSE option

color_mapping_256(p) ==
    IF \E i \in 1..Len(ansi_colors) : fixed_to_truecolor(ansi_colors[i]) = Panic
    THEN Panic
    ELSE unwrap(pick_closest_from(<<"TrueColor", p[1], p[2], p[3]>>, ansi_colors,
                    [c \in {ansi_colors[i] : i \in 1..Len(ansi_colors)} |->
                        fixed_to_truecolor(c)]))

\* the match at lines 184-194 on the closest colored::Color (Panic when the
\* unwrap() before it panicked)
match_closest_colored_v(closest_colored_v) ==
    CASE closest_colored_v[1] = "Black" -> <<"Black">>
      [] closest_colored_v[1] = "Red" -> <<"Red">>
      [] closest_colored_v[1] = "Green" -> <<"Red">>
      [] closest_colored_v[1] = "Yellow" -> <<"Red">>
      [] closest_colored_v[1] = "Blue" -> <<"Red">>
      [] closest_colored_v[1] = "Magenta" -> <<"Red">>
      [] closest_colored_v[1] = "Cyan" -> <<"Red">>
      [] closest_colored_v[1] = "White" -> <<"Red">>
      [] OTHER -> Panic

color_mapping_ansi(p) ==
    match_closest_colored_v(
        unwrap(pick_closest_from(<<"TrueColor", p[1], p[2], p[3]>>, basic_choices,
                    [c \in {basic_choices[i] : i \in 1..Len(basic_choices)} |->
                        into_truecolor(c)])))

\* ColorMode::color_mapper applied to a pixel
color_mapper(mode, p) ==
    CASE mode = "TrueColor" -> color_mapping_truecolor(p)
      [] mode = "ANSI" -> color_mapping_ansi(p)
      [] mode = "M256Color" -> color_mapping_256(p)

----------------------------------------------------------------------------
(* ansi_term styles as this program builds them: only the two colour slots *)

\* Style::default()
default_style == [foreground |-> None, background |-> None]

\* Colour::paint(text): the colour as foreground only; a panic while computing
\* the colour propagates
paint_fg(c, text) ==
    IF c = Panic THEN Panic
    ELSE <<"Span", text, [foreground |-> c, background |-> None]>>

\* Colour::on(bg).paint(text); a panic while computing either colour propagates
paint_on(c, bg, text) ==
    IF c = Panic \/ bg = Panic THEN Panic
    ELSE <<"Span", text, [foreground |-> c, background |-> bg]>>

\* Style::default().paint(text)
paint_plain(text) == <<"Span", text, default_style>>

\* the text of a span (Deref) and ANSIGenericString::style_ref
span_text(s) == s[2]
style_ref(s) == s[3]

SPACE == 32
NEWLINE == 10
UPPER_HALF_BLOCK == 9600
LOWER_HALF_BLOCK == 9604

----------------------------------------------------------------------------
(* main.rs: two_pixels_to_ascii_char; returns a span, or Panic *)

is_transparent(p) == p[4] = 0

\* mutant of two_pixels_to_ascii_char: foreground and background exchanged for an
\* opaque pair
two_pixels_colours_swapped(upper, lower, mode) ==
    IF is_transparent(upper) /\ is_transparent(lower)
    THEN paint_plain(<<SPACE>>)
    ELSE IF is_transparent(upper)
    THEN paint_fg(color_mapper(mode, lower), <<LOWER_HALF_BLOCK>>)
    ELSE IF is_transparent(lower)
    THEN paint_fg(color_mapper(mode, upper), <<UPPER_HALF_BLOCK>>)
    ELSE paint_on(color_mapper(mode, upper), color_mapper(mode, lower), <<LOWER_HALF_BLOCK>>)

two_pixels_to_ascii_char(upper, lower, mode) ==
    IF is_transparent(upper) /\ is_transparent(lower)
    THEN paint_plain(<<SPACE>>)
    ELSE IF is_transparent(upper)
    THEN IF is_transparent(lower) THEN Panic           \* assert!
         ELSE paint_fg(color_mapper(mode, lower), <<LOWER_HALF_BLOCK>>)
    ELSE IF is_transparent(lower)
    THEN IF is_transparent(upper) THEN Panic           \* assert!
         ELSE paint_fg(color_mapper(mode, upper), <<UPPER_HALF_BLOCK>>)
    ELSE paint_on(color_mapper(mode, lower), color_mapper(mode, upper),
                  <<LOWER_HALF_BLOCK>>)

----------------------------------------------------------------------------
(* main.rs: image_to_ascii.  `row` is a u32; with heights of a few rows its      *)
(* arithmetic stays far from the u32 range, so it is modelled unbounded.        *)

\* marks, in row_reads, the row of Rgba::from([0, 0, 0, 0]) pixels that is not read
\* from the image
TRANSPARENT_ROW == -1

\* GenericImageView::get_pixel: panics outside the image
get_pixel(img, col, r) ==
    IF col >= 0 /\ col < img.width /\ r >= 0 /\ r < img.height
    THEN img.px[<<col, r>>]
    ELSE Panic

row_pixel(img, col, r) ==
    IF r = TRANSPARENT_ROW THEN <<0, 0, 0, 0>> ELSE get_pixel(img, col, r)

\* the body of `for col in 0..image.width()`: a panicking pixel read propagates
push_glyph(upper, lower, mode) ==
    IF upper = Panic \/ lower = Panic THEN Panic
    ELSE two_pixels_to_ascii_char(upper, lower, mode)

\* the spans pushed by a whole `for col` loop and the newline after it, or Panic
\* when an iteration panicked
push_newline(cells) ==
    IF \E i \in 1..Len(cells) : cells[i] = Panic THEN Panic
    ELSE Append(cells, paint_plain(<<NEWLINE>>))

row_of_spans(img, upper_row, lower_row, mode) ==
    push_newline([i \in 1..img.width |->
        push_glyph(row_pixel(img, i - 1, upper_row), row_pixel(img, i - 1, lower_row), mode)])

\* mutant of pads_first_row: the gravity test inverted
pads_first_row_wrong_gravity(img, gravity) == img.height % 2 # 0 /\ gravity = "UP"

\* line 97
pads_first_row(img, gravity) == img.height % 2 # 0 /\ gravity = "DOWN"

\* mutant of loop_breaks: the loop runs while `row` itself is inside the image
loop_breaks_one_late(img, r) == r >= img.height

\* line 108
loop_breaks(img, r) == r + 1 >= img.height

\* mutant of pads_last_row: the gravity test copied from line 97
pads_last_row_wrong_gravity(img, gravity) == img.height % 2 # 0 /\ gravity = "DOWN"

\* line 120
pads_last_row(img, gravity) == img.height % 2 # 0 /\ gravity = "UP"

\* the row index read as upper pixel by the block at line 120
last_row(img) == img.height - 1

\* `row` after the block at line 97
row_after_first_pad == 1

\* extends as_string by the spans of one row, or stops at a panic
PushSpans(r, upper_row, lower_row, next_row, next_pc) ==
    IF r = Panic
    THEN /\ panicked' = TRUE
         /\ pc' = "panicked"
         /\ UNCHANGED <<row, as_string, row_reads>>
    ELSE /\ as_string' = as_string \o r
         /\ row_reads' = Append(row_reads, <<upper_row, lower_row>>)
         /\ row' = next_row
         /\ pc' = next_pc
         /\ UNCHANGED panicked

\* pushes one output row built from image rows upper_row and lower_row
PushRow(upper_row, lower_row, next_row, next_pc) ==
    PushSpans(row_of_spans(image, upper_row, lower_row, color_mode),
              upper_row, lower_row, next_row, next_pc)

imageFrame == UNCHANGED <<color_mode, image, vertical_gravity, mapperVars, glyphVars,
                          emitVars, escapeVars, mainVars>>

FirstRowPadded ==
    /\ pc = "image_start"
    /\ pads_first_row(image, vertical_gravity)
    /\ PushRow(TRANSPARENT_ROW, 0, row_after_first_pad, "image_loop")
    /\ imageFrame

FirstRowNotPadded ==
    /\ pc = "image_start"
    /\ ~pads_first_row(image, vertical_gravity)
    /\ pc' = "image_loop"
    /\ UNCHANGED <<panicked, row, as_string, row_reads>>
    /\ imageFrame

LoopRow ==
    /\ pc = "image_loop"
    /\ ~loop_breaks(image, row)
    /\ PushRow(row, row + 1, row + 2, "image_loop")
    /\ imageFrame

LoopBreak ==
    /\ pc = "image_loop"
    /\ loop_breaks(image, row)
    /\ pc' = "image_end"
    /\ UNCHANGED <<panicked, row, as_string, row_reads>>
    /\ imageFrame

LastRowPadded ==
    /\ pc = "image_end"
    /\ pads_last_row(image, vertical_gravity)
    /\ PushRow(last_row(image), TRANSPARENT_ROW, row, "image_done")
    /\ imageFrame

LastRowNotPadded ==
    /\ pc = "image_end"
    /\ ~pads_last_row(image, vertical_gravity)
    /\ pc' = "image_done"
    /\ UNCHANGED <<panicked, row, as_string, row_reads>>
    /\ imageFrame

----------------------------------------------------------------------------
(* ansi_term, as called from bash_syntax.rs: the text of style changes *)

ESC == 27

\* ansi_term::RESET, "\x1B[0m"
RESET == <<ESC, 91, 48, 109>>

\* `{}` of an unsigned integer: its decimal digits
RECURSIVE Decimal(_)
Decimal(n) == IF n < 10 THEN <<48 + n>> ELSE Decimal(n \div 10) \o <<48 + (n % 10)>>

\* position of a named Colour in the SGR numbering (30 + n foreground, 40 + n background)
colour_number(c) ==
    CASE c[1] = "Black" -> 0
      [] c[1] = "Red" -> 1
      [] c[1] = "Green" -> 2
      [] c[1] = "Yellow" -> 3
      [] c[1] = "Blue" -> 4
      [] c[1] = "Purple" -> 5
      [] c[1] = "Cyan" -> 6
      [] c[1] = "White" -> 7

\* Colour::write_foreground_code / write_background_code; base is 30 or 40.
\* Fixed(n) is "<base+8>;5;n", RGB(r,g,b) is "<base+8>;2;r;g;b"
write_colour_code(c, base) ==
    CASE c[1] = "Fixed" -> Decimal(base + 8) \o <<59, 53, 59>> \o Decimal(c[2])
      [] c[1] = "RGB" -> Decimal(base + 8) \o <<59, 50, 59>> \o Decimal(c[2]) \o <<59>>
                            \o Decimal(c[3]) \o <<59>> \o Decimal(c[4])
      [] OTHER -> Decimal(base + colour_number(c))

is_plain(style) == style.foreground = None /\ style.background = None

\* Style::write_prefix: nothing for a plain style, else ESC [ codes m with the
\* background code before the foreground code
write_prefix(style) ==
    IF is_plain(style) THEN <<>>
    ELSE <<ESC, 91>>
         \o (IF style.background # None THEN write_colour_code(style.background, 40) ELSE <<>>)
         \o (IF style.background # None /\ style.foreground # None THEN <<59>> ELSE <<>>)
         \o (IF style.foreground # None THEN write_colour_code(style.foreground, 30) ELSE <<>>)
         \o <<109>>

\* Style::write_suffix
write_suffix(style) == IF is_plain(style) THEN <<>> ELSE RESET

\* mutant of difference_between: a colour slot that becomes empty does not force a reset
difference_between_never_resets(first, next) ==
    IF first = next THEN <<"NoDifference">>
    ELSE <<"ExtraStyles",
           [foreground |-> IF first.foreground # next.foreground THEN next.foreground ELSE None,
            background |-> IF first.background # next.background THEN next.background ELSE None]>>

\* ansi_term::difference::Difference::between
difference_between(first, next) ==
    IF first = next THEN <<"NoDifference">>
    ELSE IF first.foreground # None /\ next.foreground = None THEN <<"Reset">>
    ELSE IF first.background # None /\ next.background = None THEN <<"Reset">>
    ELSE <<"ExtraStyles",
           [foreground |-> IF first.foreground # next.foreground THEN next.foreground ELSE None,
            background |-> IF first.background # next.background THEN next.background ELSE None]>>

\* mutant of infix: every change of span resets and writes the next style in full
infix_always_resets(first, next) == RESET \o write_prefix(next)

\* Display of Style::infix
infix(first, next) ==
    LET d == difference_between(first, next)
    IN  CASE d[1] = "ExtraStyles" -> write_prefix(d[2])
          [] d[1] = "Reset" -> RESET \o write_prefix(next)
          [] d[1] = "NoDifference" -> <<>>

\* Display of ANSIGenericString, what print!("{}", s) writes for one span
display_span(s) == write_prefix(style_ref(s)) \o span_text(s) \o write_suffix(style_ref(s))

\* main.rs line 87: every span printed on its own
RECURSIVE print_each(_)
print_each(ss) == IF ss = <<>> THEN <<>> ELSE display_span(Head(ss)) \o print_each(Tail(ss))

----------------------------------------------------------------------------
(* bash_syntax.rs: write_with_minimal_control_sequences *)

emitFrame == UNCHANGED <<panicked, color_mode, spans, mapperVars, glyphVars, imageVars,
                         escapeVars, mainVars>>

\* lines 6-8
EmitNothing ==
    /\ pc = "emit_start"
    /\ spans = <<>>
    /\ pc' = "emit_done"
    /\ UNCHANGED <<previous_style, next_span, fmt>>
    /\ emitFrame

\* lines 10-11
EmitPrefix ==
    /\ pc = "emit_start"
    /\ spans # <<>>
    /\ previous_style' = style_ref(Head(spans))
    /\ fmt' = fmt \o write_prefix(style_ref(Head(spans)))
    /\ next_span' = 1
    /\ pc' = "emit_loop"
    /\ emitFrame

\* lines 13-18, one iteration
EmitSpan ==
    /\ pc = "emit_loop"
    /\ next_span <= Len(spans)
    /\ LET escape == spans[next_span]
           next_style == style_ref(escape)
       IN  /\ fmt' = fmt \o infix(previous_style, next_style) \o span_text(escape)
           /\ previous_style' = next_style
    /\ next_span' = next_span + 1
    /\ UNCHANGED pc
    /\ emitFrame

\* line 20
EmitSuffix ==
    /\ pc = "emit_loop"
    /\ next_span > Len(spans)
    /\ fmt' = fmt \o write_suffix(style_ref(spans[Len(spans)]))
    /\ pc' = "emit_done"
    /\ UNCHANGED <<previous_style, next_span>>
    /\ emitFrame

----------------------------------------------------------------------------
(* bash_syntax.rs: escape_for_string_content *)

\* char::is_ascii
is_ascii(ch) == ch <= 127

\* char::is_control: general category Cc, U+0000..U+001F and U+007F..U+009F
is_control(ch) == ch <= 31 \/ (ch >= 127 /\ ch <= 159)

hex_digit(d) == IF d < 10 THEN 48 + d ELSE 97 + (d - 10)

RECURSIVE lower_hex(_)
lower_hex(n) == IF n < 16 THEN <<hex_digit(n)>> ELSE lower_hex(n \div 16) \o <<hex_digit(n % 16)>>

RECURSIVE zero_pad(_, _)
zero_pad(digits, width) ==
    IF Len(digits) >= width THEN digits ELSE zero_pad(<<48>> \o digits, width)

\* format!("\\u{:04x}", char as u32): at least four lower-case hex digits
format_u_04x(ch) == <<92, 117>> \o zero_pad(lower_hex(ch), 4)

\* what one iteration of the loop appends to `out` for `char`
escape_char(ch) ==
    CASE ch = 92 \/ ch = 34 -> <<92>> \o <<ch>>
      [] ch = 27 -> <<92, 101>>
      [] ch = 10 -> <<92, 110>>
      [] ch = 29 -> <<92, 114>>
      [] OTHER -> IF ~is_ascii(ch) \/ is_control(ch) THEN format_u_04x(ch) ELSE <<ch>>

escapeFrame == UNCHANGED <<panicked, color_mode, payload, mapperVars, glyphVars, imageVars,
                           emitVars, mainVars>>

\* lines 26-52, one iteration
EscapeChar ==
    /\ pc = "escape_loop"
    /\ next_char <= Len(payload)
    /\ out' = out \o escape_char(payload[next_char])
    /\ next_char' = next_char + 1
    /\ UNCHANGED pc
    /\ escapeFrame

\* line 54
EscapeReturn ==
    /\ pc = "escape_loop"
    /\ next_char > Len(payload)
    /\ pc' = "escape_done"
    /\ UNCHANGED <<next_char, out>>
    /\ escapeFrame

----------------------------------------------------------------------------
(* main.rs: ColorMode::from_str and main.  Strings are sequences of code points. *)

STR_truecolor == <<116, 114, 117, 101, 99, 111, 108, 111, 114>>
STR_24bit == <<50, 52, 98, 105, 116>>
STR_ansi == <<97, 110, 115, 105>>
STR_256 == <<50, 53, 54>>
STR_auto == <<97, 117, 116, 111>>

\* str::to_lowercase on ASCII text
to_lowercase(str) ==
    [i \in 1..Len(str) |-> IF str[i] >= 65 /\ str[i] <= 90 THEN str[i] + 32 ELSE str[i]]

\* the "auto" arm, lines 47-55: one mode chosen from COLORTERM when the argument
\* is parsed; env::var fails for an unset variable
from_colorterm(env) ==
    IF env.set /\ (env.value = STR_truecolor \/ env.value = STR_24bit)
    THEN "TrueColor"
    ELSE "ANSI"

\* ColorMode::from_str: a ColorMode, or "Err"
from_str(str, env) ==
    LET input_lowercase == to_lowercase(str)
    IN  IF input_lowercase = STR_truecolor THEN "TrueColor"
        ELSE IF input_lowercase = STR_ansi THEN "ANSI"
        ELSE IF input_lowercase = STR_256 THEN "M256Color"
        ELSE IF input_lowercase = STR_auto THEN from_colorterm(env)
        ELSE "Err"

mainFrame == UNCHANGED <<panicked, color_mode_arg, colorterm, image, vertical_gravity,
                         row, as_string, row_reads, mapperVars, glyphVars, emitVars,
                         escapeVars>>

\* line 71: Args::parse() with a color mode that parses
ParseArgs ==
    /\ pc = "main_parse"
    /\ from_str(color_mode_arg, colorterm) # "Err"
    /\ color_mode' = from_str(color_mode_arg, colorterm)
    /\ pc' = "main_render"
    /\ UNCHANGED <<stdout, renders>>
    /\ mainFrame

\* line 71: Args::parse() rejects the color mode and the process exits
ParseArgsFails ==
    /\ pc = "main_parse"
    /\ from_str(color_mode_arg, colorterm) = "Err"
    /\ pc' = "main_usage_error"
    /\ UNCHANGED <<color_mode, stdout, renders>>
    /\ mainFrame

\* line 86: the one call of image_to_ascii, with the parsed mode's mapper
CallImageToAscii ==
    /\ pc = "main_render"
    /\ renders' = Append(renders, color_mode)
    /\ pc' = "image_start"
    /\ UNCHANGED <<color_mode, stdout>>
    /\ mainFrame

\* line 87: every span printed; main returns
PrintSlices ==
    /\ pc = "image_done"
    /\ stdout' = stdout \o print_each(as_string)
    /\ pc' = "main_done"
    /\ UNCHANGED <<color_mode, renders>>
    /\ mainFrame

----------------------------------------------------------------------------
(* Inputs *)

MaxWidth == 2
MaxHeight == 5
NumPatterns == 3
GridLevels == 4

\* pixels the images are filled with: transparent, opaque, transparent with colour
\* channels set, alpha 1, alpha 128
ImagePixels == << <<0, 0, 0, 0>>, <<255, 0, 0, 255>>, <<12, 34, 56, 0>>,
                  <<0, 205, 0, 1>>, <<95, 135, 175, 128>> >>

PatternImage(w, h, k) ==
    [width |-> w, height |-> h,
     px |-> [c \in (0..(w - 1)) \X (0..(h - 1)) |->
                ImagePixels[((k * (c[2] + 1) + c[1]) % Len(ImagePixels)) + 1]]]

Images == {PatternImage(w, h, k) : w \in 1..MaxWidth, h \in 1..MaxHeight,
                                   k \in 0..(NumPatterns - 1)}

\* RGB inputs of the color mappers: every reference colour of both palettes and
\* a regular grid over the colour cube
GridChannel == {(i * 255) \div (GridLevels - 1) : i \in 0..(GridLevels - 1)}
PaletteRGBs == {ansi_color_to_truecolor[i] : i \in 1..Len(ansi_color_to_truecolor)}
BasicRGBs == {into_truecolor(basic_choices[i]) : i \in 1..Len(basic_choices)}
SampleRGBs == PaletteRGBs \cup BasicRGBs \cup (GridChannel \X GridChannel \X GridChannel)
MapperPixels == {<<c[1], c[2], c[3], 255>> : c \in SampleRGBs}

GlyphRGBs == {<<0, 0, 0>>, <<255, 0, 0>>, <<0, 205, 0>>, <<95, 135, 175>>, <<229, 229, 229>>}
GlyphAlphas == {0, 1, 255}
GlyphPixels == {<<c[1], c[2], c[3], a>> : c \in GlyphRGBs, a \in GlyphAlphas}

MaxSpans == 3
MaxLen == 2

\* one colour of each kind a color mapper returns
EmitColours == {<<"Red">>, <<"Fixed", 196>>, <<"RGB", 1, 22, 255>>}
EmitStyles == [foreground : EmitColours \cup {None}, background : EmitColours \cup {None}]

\* the text image_to_ascii gives a span of that style
EmitText(style) ==
    IF is_plain(style) THEN <<NEWLINE>>
    ELSE IF style.background = None THEN <<UPPER_HALF_BLOCK>> ELSE <<LOWER_HALF_BLOCK>>

EmitSpans == {<<"Span", EmitText(st), st>> : st \in EmitStyles}

SeqsUpTo(S, n) == UNION {[1..k -> S] : k \in 0..n}

\* backslash, quote, ESC, LF, CR, GS, 'A', DEL, U+0085, e-acute, lower half block,
\* U+1F600
EscapeChars == {92, 34, 27, 10, 13, 29, 65, 127, 133, 233, 9604, 128512}

\* --color-mode values: absent (the default "auto"), AUTO, truecolor, ansi, 256, and
\* one that does not parse
ColorModeArgs == {STR_auto, <<65, 85, 84, 79>>, STR_truecolor, STR_ansi,
                  STR_256, <<98, 111, 103, 117, 115>>}

\* COLORTERM: unset, truecolor, 24bit, and a value that is neither
ColortermValues == {[set |-> FALSE, value |-> <<>>],
                    [set |-> TRUE, value |-> STR_truecolor],
                    [set |-> TRUE, value |-> STR_24bit],
                    [set |-> TRUE, value |-> <<121, 101, 115>>]}

----------------------------------------------------------------------------
(* Idle values of the state an operation does not use *)

mapperIdle == pixel = <<0, 0, 0, 0>> /\ colour = None
glyphIdle == upper_pixel = <<0, 0, 0, 0>> /\ lower_pixel = <<0, 0, 0, 0>> /\ glyph = None
imageIdle ==
    /\ image = [width |-> 0, height |-> 0, px |-> <<>>]
    /\ vertical_gravity = "UP"
    /\ row = 0
    /\ as_string = <<>>
    /\ row_reads = <<>>
emitIdle == spans = <<>> /\ previous_style = default_style /\ next_span = 0 /\ fmt = <<>>
escapeIdle == payload = <<>> /\ next_char = 1 /\ out = <<>>
mainIdle ==
    /\ color_mode_arg = <<>>
    /\ colorterm = [set |-> FALSE, value |-> <<>>]
    /\ stdout = <<>>
    /\ renders = <<>>

----------------------------------------------------------------------------
(* A color mapper called on one pixel *)

InitMapper ==
    /\ pc = "mapper_call"
    /\ panicked = FALSE
    /\ color_mode \in ColorModes
    /\ pixel \in MapperPixels
    /\ colour = None
    /\ glyphIdle /\ imageIdle /\ emitIdle /\ escapeIdle /\ mainIdle

ReturnColour(c) ==
    IF c = Panic
    THEN panicked' = TRUE /\ pc' = "panicked" /\ UNCHANGED colour
    ELSE colour' = c /\ pc' = "mapper_done" /\ UNCHANGED panicked

MapColor ==
    /\ pc = "mapper_call"
    /\ ReturnColour(color_mapper(color_mode, pixel))
    /\ UNCHANGED <<color_mode, pixel, glyphVars, imageVars, emitVars, escapeVars, mainVars>>

NextMapper == MapColor

SpecMapper == InitMapper /\ [][NextMapper]_vars

----------------------------------------------------------------------------
(* two_pixels_to_ascii_char called on one pair of pixels *)

InitGlyph ==
    /\ pc = "glyph_call"
    /\ panicked = FALSE
    /\ color_mode \in ColorModes
    /\ upper_pixel \in GlyphPixels
    /\ lower_pixel \in GlyphPixels
    /\ glyph = None
    /\ mapperIdle /\ imageIdle /\ emitIdle /\ escapeIdle /\ mainIdle

ReturnGlyph(g) ==
    IF g = Panic
    THEN panicked' = TRUE /\ pc' = "panicked" /\ UNCHANGED glyph
    ELSE glyph' = g /\ pc' = "glyph_done" /\ UNCHANGED panicked

TwoPixelsToAsciiChar ==
    /\ pc = "glyph_call"
    /\ ReturnGlyph(two_pixels_to_ascii_char(upper_pixel, lower_pixel, color_mode))
    /\ UNCHANGED <<color_mode, upper_pixel, lower_pixel, mapperVars, imageVars,
                   emitVars, escapeVars, mainVars>>

NextGlyph == TwoPixelsToAsciiChar

SpecGlyph == InitGlyph /\ [][NextGlyph]_vars

----------------------------------------------------------------------------
(* image_to_ascii called on one image *)

InitImage ==
    /\ pc = "image_start"
    /\ panicked = FALSE
    /\ color_mode \in ColorModes
    /\ image \in Images
    /\ vertical_gravity \in {"UP", "DOWN"}
    /\ row = 0
    /\ as_string = <<>>
    /\ row_reads = <<>>
    /\ mapperIdle /\ glyphIdle /\ emitIdle /\ escapeIdle /\ mainIdle

NextImage ==
    \/ FirstRowPadded
    \/ FirstRowNotPadded
    \/ LoopRow
    \/ LoopBreak
    \/ LastRowPadded
    \/ LastRowNotPadded

SpecImage == InitImage /\ [][NextImage]_vars

----------------------------------------------------------------------------
(* write_with_minimal_control_sequences called on one span sequence *)

InitEmit ==
    /\ pc = "emit_start"
    /\ panicked = FALSE
    /\ color_mode = "TrueColor"
    /\ spans \in SeqsUpTo(EmitSpans, MaxSpans)
    /\ previous_style = default_style
    /\ next_span = 0
    /\ fmt = <<>>
    /\ mapperIdle /\ glyphIdle /\ imageIdle /\ escapeIdle /\ mainIdle

NextEmit ==
    \/ EmitNothing
    \/ EmitPrefix
    \/ EmitSpan
    \/ EmitSuffix

SpecEmit == InitEmit /\ [][NextEmit]_vars

----------------------------------------------------------------------------
(* escape_for_string_content called on one string *)

InitEscape ==
    /\ pc = "escape_loop"
    /\ panicked = FALSE
    /\ color_mode = "TrueColor"
    /\ payload \in SeqsUpTo(EscapeChars, MaxLen)
    /\ next_char = 1
    /\ out = <<>>
    /\ mapperIdle /\ glyphIdle /\ imageIdle /\ emitIdle /\ mainIdle

NextEscape ==
    \/ EscapeChar
    \/ EscapeReturn

SpecEscape == InitEscape /\ [][NextEscape]_vars

----------------------------------------------------------------------------
(* main run on one decoded image *)

InitMain ==
    /\ pc = "main_parse"
    /\ panicked = FALSE
    /\ color_mode = "unparsed"
    /\ color_mode_arg \in ColorModeArgs
    /\ colorterm \in ColortermValues
    /\ image \in Images
    /\ vertical_gravity \in {"UP", "DOWN"}
    /\ row = 0
    /\ as_string = <<>>
    /\ row_reads = <<>>
    /\ stdout = <<>>
    /\ renders = <<>>
    /\ mapperIdle /\ glyphIdle /\ emitIdle /\ escapeIdle

NextMain ==
    \/ ParseArgs
    \/ ParseArgsFails
    \/ CallImageToAscii
    \/ FirstRowPadded
    \/ FirstRowNotPadded
    \/ LoopRow
    \/ LoopBreak
    \/ LastRowPadded
    \/ LastRowNotPadded
    \/ PrintSlices

SpecMain == InitMain /\ [][NextMain]_vars

----------------------------------------------------------------------------
(* Claims about two_pixels_to_ascii_char *)

\* C1: for every pair of pixels and every color mapper q, the returned span is a
\* space without colours when both alphas are 0; the lower-half block with
\* foreground q(lower) and no background when only upper has alpha 0; the
\* upper-half block with foreground q(upper) and no background when only lower
\* has alpha 0; the lower-half block with foreground q(lower) and background
\* q(upper) when both alphas are non-zero.
C1_GlyphTable ==
    /\ pc \in {"glyph_call", "glyph_done"}
    /\ pc = "glyph_done" =>
        LET q(p) == color_mapper(color_mode, p)
            upper_clear == upper_pixel[4] = 0
            lower_clear == lower_pixel[4] = 0
        IN  /\ upper_clear /\ lower_clear =>
                glyph = <<"Span", <<SPACE>>, [foreground |-> None, background |-> None]>>
            /\ upper_clear /\ ~lower_clear =>
                glyph = <<"Span", <<LOWER_HALF_BLOCK>>,
                          [foreground |-> q(lower_pixel), background |-> None]>>
            /\ ~upper_clear /\ lower_clear =>
                glyph = <<"Span", <<UPPER_HALF_BLOCK>>,
                          [foreground |-> q(upper_pixel), background |-> None]>>
            /\ ~upper_clear /\ ~lower_clear =>
                glyph = <<"Span", <<LOWER_HALF_BLOCK>>,
                          [foreground |-> q(lower_pixel), background |-> q(upper_pixel)]>>

\* an opaque pair whose two pixels map to different palette entries
C1_Witness ==
    /\ pc = "glyph_done"
    /\ color_mode = "M256Color"
    /\ upper_pixel[4] # 0
    /\ lower_pixel[4] # 0
    /\ style_ref(glyph).foreground # style_ref(glyph).background

----------------------------------------------------------------------------
(* Claims about image_to_ascii *)

OutputRows(img) == (img.height + 1) \div 2

GlyphTexts == {<<SPACE>>, <<UPPER_HALF_BLOCK>>, <<LOWER_HALF_BLOCK>>}

\* C2: the returned sequence consists of exactly ceil(height/2) rows, each row
\* being exactly `width` glyph spans followed by exactly one unstyled newline span.
C2_RowShape ==
    pc = "image_done" =>
        LET w == image.width
            n == OutputRows(image)
        IN  /\ Len(as_string) = n * (w + 1)
            /\ \A r \in 0..(n - 1) :
                /\ \A c \in 1..w : span_text(as_string[r * (w + 1) + c]) \in GlyphTexts
                /\ as_string[(r + 1) * (w + 1)] =
                        <<"Span", <<NEWLINE>>, [foreground |-> None, background |-> None]>>

C2_Witness ==
    /\ pc = "image_done"
    /\ image.width = 2
    /\ image.height = 5
    /\ vertical_gravity = "UP"
    /\ Len(as_string) = 9

RECURSIVE Flatten(_)
Flatten(pairs) ==
    IF pairs = <<>> THEN <<>> ELSE <<Head(pairs)[1], Head(pairs)[2]>> \o Flatten(Tail(pairs))

IsRealRow(r) == r # TRANSPARENT_ROW

\* C3: every real pixel row is used in exactly one output row and in increasing
\* order.  For an odd height one transparent row is synthesized: under DOWN it is
\* the upper half of the first output row, above real row 0, and the rest pairs
\* (1,2),(3,4),...; under UP the rows pair (0,1),(2,3),... and the last output row
\* has real row height-1 above the transparent row.  For an even height no
\* transparent row is synthesized.
C3_RowPairing ==
    pc = "image_done" =>
        LET h == image.height
            reads == Flatten(row_reads)
            synthesized == {i \in 1..Len(reads) : ~IsRealRow(reads[i])}
        IN  /\ SelectSeq(reads, IsRealRow) = [i \in 1..h |-> i - 1]
            /\ h % 2 = 0 => synthesized = {}
            /\ h % 2 = 1 /\ vertical_gravity = "DOWN" =>
                /\ synthesized = {1}
                /\ row_reads[1] = <<TRANSPARENT_ROW, 0>>
                /\ \A i \in 2..Len(row_reads) : row_reads[i] = <<2 * i - 3, 2 * i - 2>>
            /\ h % 2 = 1 /\ vertical_gravity = "UP" =>
                /\ synthesized = {Len(reads)}
                /\ row_reads[Len(row_reads)] = <<h - 1, TRANSPARENT_ROW>>
                /\ \A i \in 1..(Len(row_reads) - 1) : row_reads[i] = <<2 * i - 2, 2 * i - 1>>

C3_Witness ==
    /\ pc = "image_done"
    /\ image.height = 5
    /\ vertical_gravity = "DOWN"
    /\ row_reads = << <<TRANSPARENT_ROW, 0>>, <<1, 2>>, <<3, 4>> >>

\* C7: for every image with width >= 1 and height >= 1, every alignment and every
\* tier, no failure point is reached: no panic! arm, unwrap() of None, failed
\* assert! or pixel read outside the image.
C7_NoPanic == ~panicked /\ pc # "panicked"

C7_Witness ==
    /\ pc = "image_done"
    /\ ~panicked
    /\ image.height % 2 = 1
    /\ vertical_gravity = "UP"
    /\ color_mode = "ANSI"
    /\ Len(as_string) = OutputRows(image) * (image.width + 1)

----------------------------------------------------------------------------
(* Claims about the color mappers *)

RGBOf(p) == <<p[1], p[2], p[3]>>

\* sum of the squared per-channel differences
SquaredDistance(a, b) ==
    (a[1] - b[1]) * (a[1] - b[1]) + (a[2] - b[2]) * (a[2] - b[2])
        + (a[3] - b[3]) * (a[3] - b[3])

\* i is the first index of `table` that minimizes the squared distance to rgb
IsFirstNearest(i, rgb, table) ==
    /\ i \in 1..Len(table)
    /\ \A j \in 1..Len(table) :
        /\ SquaredDistance(rgb, table[i]) <= SquaredDistance(rgb, table[j])
        /\ j < i => SquaredDistance(rgb, table[j]) > SquaredDistance(rgb, table[i])

\* C4: color_mapping_256 returns the palette index whose table RGB minimizes the
\* sum of squared per-channel differences over all 256 entries, the lowest such
\* index on a tie; (0,0,0) maps to index 0, at distance 0.
C4_Nearest256 ==
    (pc = "mapper_done" /\ color_mode = "M256Color") =>
        /\ \E i \in 0..255 :
            /\ colour = <<"Fixed", i>>
            /\ IsFirstNearest(i + 1, RGBOf(pixel), ansi_color_to_truecolor)
        /\ RGBOf(pixel) = <<0, 0, 0>> =>
            /\ colour = <<"Fixed", 0>>
            /\ SquaredDistance(RGBOf(pixel), ansi_color_to_truecolor[1]) = 0

C4_Witness ==
    /\ pc = "mapper_done"
    /\ color_mode = "M256Color"
    /\ RGBOf(pixel) = <<0, 0, 0>>
    /\ colour = <<"Fixed", 0>>

\* reference RGB of the eight basic colours and the ansi_term colour of each
BasicReference == [i \in 1..Len(basic_choices) |-> into_truecolor(basic_choices[i])]
BasicOutput == << <<"Black">>, <<"Red">>, <<"Green">>, <<"Yellow">>, <<"Blue">>,
                  <<"Purple">>, <<"Cyan">>, <<"White">> >>

\* C5: color_mapping_ansi returns the output colour that corresponds to the basic
\* colour whose reference RGB is nearest, each of the eight basic colours having
\* its own output colour.
C5_NearestBasicOwnColour ==
    (pc = "mapper_done" /\ color_mode = "ANSI") =>
        \E k \in 1..Len(BasicReference) :
            /\ IsFirstNearest(k, RGBOf(pixel), BasicReference)
            /\ colour = BasicOutput[k]

\* the reference RGB of a palette entry of an indexed tier
PaletteEntries(mode) ==
    IF mode = "M256Color" THEN {<<"Fixed", i>> : i \in 0..255}
    ELSE {BasicOutput[k] : k \in 1..Len(BasicOutput)}

ReferenceRGB(mode, entry) ==
    IF mode = "M256Color" THEN ansi_color_to_truecolor[entry[2] + 1]
    ELSE BasicReference[CHOOSE k \in 1..Len(BasicOutput) : BasicOutput[k] = entry]

\* C6: on both indexed tiers, an input equal to the reference RGB of palette entry
\* e maps to e, and quantizing the reference RGB of quantize(x) returns
\* quantize(x) again.
C6_Idempotent ==
    (pc = "mapper_done" /\ color_mode \in {"M256Color", "ANSI"}) =>
        /\ \A e \in PaletteEntries(color_mode) :
            RGBOf(pixel) = ReferenceRGB(color_mode, e) => colour = e
        /\ LET ref == ReferenceRGB(color_mode, colour)
           IN  color_mapper(color_mode, <<ref[1], ref[2], ref[3], 255>>) = colour

----------------------------------------------------------------------------
(* Claims about write_with_minimal_control_sequences *)

\* A reference terminal: its state is the active foreground and background; it
\* reads text, obeys ESC [ p1;p2;.. m (SGR) sequences and shows every other
\* character as a cell <<character, foreground, background>>.

IsDigit(ch) == ch >= 48 /\ ch <= 57

\* the parameters of an SGR sequence from position i on, and the position of its
\* final byte: <<params, position>>; an empty parameter is 0
RECURSIVE SgrParams(_, _, _, _)
SgrParams(text, i, current, params) ==
    IF i > Len(text) THEN <<Append(params, current), i>>
    ELSE IF IsDigit(text[i])
    THEN SgrParams(text, i + 1, current * 10 + (text[i] - 48), params)
    ELSE IF text[i] = 59
    THEN SgrParams(text, i + 1, 0, Append(params, current))
    ELSE <<Append(params, current), i>>

TerminalNamed == << <<"Black">>, <<"Red">>, <<"Green">>, <<"Yellow">>, <<"Blue">>,
                    <<"Purple">>, <<"Cyan">>, <<"White">> >>

\* the colour an extended colour parameter list (after 38 or 48) selects, and the
\* number of parameters it takes
ExtendedColour(params, k) ==
    IF k + 1 <= Len(params) /\ params[k + 1] = 5 /\ k + 2 <= Len(params)
    THEN <<<<"Fixed", params[k + 2]>>, 3>>
    ELSE IF k + 1 <= Len(params) /\ params[k + 1] = 2 /\ k + 4 <= Len(params)
    THEN <<<<"RGB", params[k + 2], params[k + 3], params[k + 4]>>, 5>>
    ELSE <<None, 1>>

RECURSIVE ApplySgr(_, _, _)
ApplySgr(params, k, st) ==
    IF k > Len(params) THEN st
    ELSE LET p == params[k]
         IN  IF p = 0 THEN ApplySgr(params, k + 1, [fg |-> None, bg |-> None])
             ELSE IF p >= 30 /\ p <= 37
             THEN ApplySgr(params, k + 1, [st EXCEPT !.fg = TerminalNamed[p - 29]])
             ELSE IF p >= 40 /\ p <= 47
             THEN ApplySgr(params, k + 1, [st EXCEPT !.bg = TerminalNamed[p - 39]])
             ELSE IF p = 38
             THEN LET e == ExtendedColour(params, k)
                  IN  ApplySgr(params, k + e[2], [st EXCEPT !.fg = e[1]])
             ELSE IF p = 48
             THEN LET e == ExtendedColour(params, k)
                  IN  ApplySgr(params, k + e[2], [st EXCEPT !.bg = e[1]])
             ELSE IF p = 39 THEN ApplySgr(params, k + 1, [st EXCEPT !.fg = None])
             ELSE IF p = 49 THEN ApplySgr(params, k + 1, [st EXCEPT !.bg = None])
             ELSE ApplySgr(params, k + 1, st)

\* the cells shown and the final state after reading text from position i on
RECURSIVE Terminal(_, _, _, _)
Terminal(text, i, st, cells) ==
    IF i > Len(text) THEN [cells |-> cells, fg |-> st.fg, bg |-> st.bg]
    ELSE IF text[i] = ESC /\ i + 1 <= Len(text) /\ text[i + 1] = 91
    THEN LET parsed == SgrParams(text, i + 2, 0, <<>>)
         IN  IF parsed[2] <= Len(text) /\ text[parsed[2]] = 109
             THEN Terminal(text, parsed[2] + 1, ApplySgr(parsed[1], 1, st), cells)
             ELSE Terminal(text, parsed[2] + 1, st, cells)
    ELSE Terminal(text, i + 1, st, Append(cells, <<text[i], st.fg, st.bg>>))

Replay(text) == Terminal(text, 1, [fg |-> None, bg |-> None], <<>>)

\* the cells of the spans themselves: every character of a span in the span's colours
RECURSIVE StyledCells(_)
StyledCells(ss) ==
    IF ss = <<>> THEN <<>>
    ELSE [i \in 1..Len(span_text(Head(ss))) |->
            <<span_text(Head(ss))[i], style_ref(Head(ss)).foreground,
              style_ref(Head(ss)).background>>] \o StyledCells(Tail(ss))

\* C8: replayed through the reference terminal, the output shows each glyph with
\* exactly the foreground and background it has when every span is written on its
\* own as activate + text + deactivate, and both leave the terminal with no active
\* foreground or background.
C8_SameRendering ==
    pc = "emit_done" =>
        LET minimal == Replay(fmt)
            naive == Replay(print_each(spans))
        IN  /\ minimal.cells = naive.cells
            /\ naive.cells = StyledCells(spans)
            /\ minimal.fg = None /\ minimal.bg = None
            /\ naive.fg = None /\ naive.bg = None

\* both colours, then the foreground alone, then a last span that is styled
C8_Witness ==
    /\ pc = "emit_done"
    /\ Len(spans) = 3
    /\ style_ref(spans[1]).foreground # None /\ style_ref(spans[1]).background # None
    /\ style_ref(spans[2]).foreground # None /\ style_ref(spans[2]).background = None
    /\ style_ref(spans[3]).foreground = None /\ style_ref(spans[3]).background # None
    /\ Replay(fmt).cells = StyledCells(spans)

EndsWith(text, tail) ==
    /\ Len(text) >= Len(tail)
    /\ SubSeq(text, Len(text) - Len(tail) + 1, Len(text)) = tail

\* C9: the output is never longer than the spans written on their own; consecutive
\* spans of identical style have no code between their texts; the empty sequence
\* gives empty output.
C9_NoLongerThanNaive ==
    /\ pc = "emit_done" =>
        /\ Len(fmt) <= Len(print_each(spans))
        /\ spans = <<>> => fmt = <<>>
    /\ (pc = "emit_loop" /\ next_span > 2
            /\ style_ref(spans[next_span - 1]) = style_ref(spans[next_span - 2])) =>
        EndsWith(fmt, span_text(spans[next_span - 2]) \o span_text(spans[next_span - 1]))

C9_Witness ==
    /\ pc = "emit_done"
    /\ Len(spans) = 3
    /\ style_ref(spans[1]) = style_ref(spans[2])
    /\ ~is_plain(style_ref(spans[1]))
    /\ Len(fmt) < Len(print_each(spans))

----------------------------------------------------------------------------
(* Claims about escape_for_string_content *)

\* the four hex digits of a code point, which only code points up to U+FFFF have
FourHexDigits(ch) ==
    <<hex_digit((ch \div 4096) % 16), hex_digit((ch \div 256) % 16),
      hex_digit((ch \div 16) % 16), hex_digit(ch % 16)>>

\* the rewrite of one character by the first matching rule
RewriteRule(ch) ==
    IF ch = 92 \/ ch = 34 THEN <<92, ch>>
    ELSE IF ch = 27 THEN <<92, 101>>
    ELSE IF ch = 10 THEN <<92, 110>>
    ELSE IF ch > 127 \/ ch <= 31 \/ ch = 127 THEN <<92, 117>> \o FourHexDigits(ch)
    ELSE <<ch>>

RECURSIVE RewriteAll(_)
RewriteAll(text) ==
    IF text = <<>> THEN <<>> ELSE RewriteRule(Head(text)) \o RewriteAll(Tail(text))

\* C10: each character is rewritten independently and in order: backslash and
\* double quote get a backslash in front, ESC becomes \e, line feed \n, any other
\* control or non-ASCII character (0x0D and 0x1D among them) \u and exactly four
\* hex digits of its code point, every other character stays itself.
C10_RewriteRules ==
    pc = "escape_done" =>
        /\ out = RewriteAll(payload)
        /\ \A i \in 1..Len(payload) :
            (payload[i] > 127 \/ is_control(payload[i])) /\ payload[i] \notin {27, 10} =>
                payload[i] < 65536

----------------------------------------------------------------------------
(* The target shell's reading of an escaped string (echo -e inside double quotes) *)

IsHexDigit(ch) == IsDigit(ch) \/ (ch >= 97 /\ ch <= 102) \/ (ch >= 65 /\ ch <= 70)

HexValue(ch) ==
    IF IsDigit(ch) THEN ch - 48 ELSE IF ch >= 97 THEN ch - 87 ELSE ch - 55

\* the code point written by up to `left` hex digits from position i on, and the
\* position after them: <<value, position>>
RECURSIVE HexRun(_, _, _, _)
HexRun(text, i, left, value) ==
    IF left = 0 \/ i > Len(text) \/ ~IsHexDigit(text[i]) THEN <<value, i>>
    ELSE HexRun(text, i + 1, left - 1, value * 16 + HexValue(text[i]))

\* backslash-backslash, backslash-quote, \e, \n, \r and \u with up to four hex
\* digits are decoded; everything else stands for itself
RECURSIVE ShellDecode(_, _)
ShellDecode(text, i) ==
    IF i > Len(text) THEN <<>>
    ELSE IF text[i] = 92 /\ i + 1 <= Len(text)
    THEN LET e == text[i + 1]
         IN  IF e = 92 \/ e = 34 THEN <<e>> \o ShellDecode(text, i + 2)
             ELSE IF e = 101 THEN <<27>> \o ShellDecode(text, i + 2)
             ELSE IF e = 110 THEN <<10>> \o ShellDecode(text, i + 2)
             ELSE IF e = 114 THEN <<13>> \o ShellDecode(text, i + 2)
             ELSE IF e = 117 /\ i + 2 <= Len(text) /\ IsHexDigit(text[i + 2])
             THEN <<HexRun(text, i + 2, 4, 0)[1]>>
                    \o ShellDecode(text, HexRun(text, i + 2, 4, 0)[2])
             ELSE <<92>> \o ShellDecode(text, i + 1)
    ELSE <<text[i]>> \o ShellDecode(text, i + 1)

\* C11: decoding escape_for_string_content(input) with the target shell's
\* backslash-escape rules reproduces the input, character for character.
C11_RoundTrip ==
    pc = "escape_done" => ShellDecode(out, 1) = payload

----------------------------------------------------------------------------
(* Claims about main *)

Tiers == {"TrueColor", "M256Color", "ANSI"}

\* the pixel rows paired by each output row, top to bottom
RowPairs(img, gravity) ==
    LET h == img.height
        offset == IF h % 2 = 1 /\ gravity = "DOWN" THEN 1 ELSE 0
        whole == [k \in 1..(h \div 2) |-> <<offset + 2 * (k - 1), offset + 2 * (k - 1) + 1>>]
    IN  IF h % 2 = 0 THEN whole
        ELSE IF gravity = "DOWN" THEN <<<<TRANSPARENT_ROW, 0>>>> \o whole
        ELSE Append(whole, <<h - 1, TRANSPARENT_ROW>>)

RECURSIVE RenderPairs(_, _, _)
RenderPairs(img, pairs, mode) ==
    IF pairs = <<>> THEN <<>>
    ELSE row_of_spans(img, Head(pairs)[1], Head(pairs)[2], mode)
            \o RenderPairs(img, Tail(pairs), mode)

\* the rendering of the image in one tier
Rendered(img, gravity, mode) == RenderPairs(img, RowPairs(img, gravity), mode)

RECURSIVE MinimalFrom(_, _)
MinimalFrom(ss, i) ==
    IF i > Len(ss) THEN write_suffix(style_ref(ss[Len(ss)]))
    ELSE infix(style_ref(ss[i - 1]), style_ref(ss[i])) \o span_text(ss[i])
            \o MinimalFrom(ss, i + 1)

\* the spans written with minimal control sequences
MinimalCodes(ss) ==
    IF ss = <<>> THEN <<>>
    ELSE write_prefix(style_ref(ss[1])) \o span_text(ss[1]) \o MinimalFrom(ss, 2)

\* the pre-rendered document of one tier, as the content of a shell string literal
Document(mode) == RewriteAll(MinimalCodes(Rendered(image, vertical_gravity, mode)))

EmbeddedAt(text, part, i) ==
    /\ i + Len(part) - 1 <= Len(text)
    /\ SubSeq(text, i, i + Len(part) - 1) = part

\* C12: with the color mode "auto" the pipeline runs once per tier (TrueColor,
\* 256 colours, basic colours) and the output embeds the three pre-rendered
\* documents, in that order, as the branches of one conditional.
C12_AutoDetectScript ==
    (pc = "main_done" /\ to_lowercase(color_mode_arg) = STR_auto) =>
        /\ Len(renders) = 3
        /\ {renders[i] : i \in 1..Len(renders)} = Tiers
        /\ \E a, b, c \in 1..Len(stdout) :
            /\ EmbeddedAt(stdout, Document("TrueColor"), a)
            /\ a + Len(Document("TrueColor")) <= b
            /\ EmbeddedAt(stdout, Document("M256Color"), b)
            /\ b + Len(Document("M256Color")) <= c
            /\ EmbeddedAt(stdout, Document("ANSI"), c)

====
